---------------------------- MODULE Spec2Model ----------------------------
(***************************************************************************)
(* The xgcode codec of src/src/lib.rs: XGCode::read (decode a byte stream  *)
(* into header + thumbnail + gcode) and XGCodeRef::write (encode it back). *)
(*                                                                         *)
(* Numbers wider than 31 bits (u32 offsets and header fields, usize        *)
(* lengths) are kept as two halves in base 2^16, [hi, lo], because the     *)
(* model checker's integers are 32-bit signed.  Byte strings (Vec<u8>,     *)
(* &[u8], the streams) are kept run-length encoded in canonical form, so   *)
(* that a 4 GiB thumbnail is a value the model can hold: encoding is       *)
(* injective, hence equality of encodings is equality of byte strings.     *)
(***************************************************************************)
EXTENDS Integers, Sequences, FiniteSets, TLC

(***************************************************************************)
(* Machine integers                                                        *)
(***************************************************************************)
Base8 == 256
Base16 == 65536

W(hi, lo) == [hi |-> hi, lo |-> lo]
Norm(hi, lo) == [hi |-> hi + (lo \div Base16), lo |-> lo % Base16]
W0 == W(0, 0)
W1 == W(0, 1)
FromInt(n) == Norm(0, n)
WAdd(a, b) == Norm(a.hi + b.hi, a.lo + b.lo)
WSub(a, b) == Norm(a.hi - b.hi, a.lo - b.lo)
WLt(a, b) == a.hi < b.hi \/ (a.hi = b.hi /\ a.lo < b.lo)
WLeq(a, b) == a = b \/ WLt(a, b)

\* u32::MAX
U32_MAX == W(Base16 - 1, Base16 - 1)
\* `x as u32` of a usize: the low 32 bits
AsU32(a) == W(a.hi % Base16, a.lo)
\* `x as i32` of a u32: the same 32 bits read as two's complement
AsI32(a) == W(IF a.hi % Base16 >= Base16 \div 2 THEN (a.hi % Base16) - Base16 ELSE a.hi % Base16, a.lo)
\* i32 subtraction: the exact difference, and whether it leaves the i32 range
I32SubReversed(a, b) == WSub(b, a)
I32Sub(a, b) == WSub(a, b)
I32SubOverflows(a, b) ==
    LET d == WSub(a, b) IN d.hi < -(Base16 \div 2) \/ d.hi >= Base16 \div 2
\* `x > (u32::MAX as usize)`
ExceedsU32OffByOne(a) == WLeq(U32_MAX, a)
ExceedsU32(a) == WLt(U32_MAX, a)
\* usize::checked_sub: [some |-> FALSE] on underflow
CheckedSub(a, b) ==
    IF WLt(a, b) THEN [some |-> FALSE, val |-> W0]
    ELSE [some |-> TRUE, val |-> WSub(a, b)]

\* byteorder's LittleEndian conversions
U32FromLE(b) == W(b[3] + Base8 * b[4], b[1] + Base8 * b[2])
U16FromLE(b) == b[1] + Base8 * b[2]
U32ToLE(v) == <<v.lo % Base8, v.lo \div Base8, v.hi % Base8, v.hi \div Base8>>
U16ToLEBE(n) == <<n \div Base8, n % Base8>>
U16ToLE(n) == <<n % Base8, n \div Base8>>

(***************************************************************************)
(* Byte strings, run-length encoded: a sequence of runs [b, n] (n > 0      *)
(* copies of byte b, n wide), adjacent runs holding different bytes.       *)
(***************************************************************************)
Run(b, n) == [b |-> b, n |-> n]

\* The folds below split the sequence in halves, which keeps the depth of
\* the evaluation logarithmic in its length.
RECURSIVE BLen(_)
BLen(s) ==
    IF Len(s) = 0 THEN W0
    ELSE IF Len(s) = 1 THEN s[1].n
    ELSE LET h == Len(s) \div 2 IN
         WAdd(BLen(SubSeq(s, 1, h)), BLen(SubSeq(s, h + 1, Len(s))))

BCat(s, t) ==
    IF s = <<>> THEN t
    ELSE IF t = <<>> THEN s
    ELSE IF s[Len(s)].b = t[1].b
         THEN SubSeq(s, 1, Len(s) - 1)
                \o <<Run(t[1].b, WAdd(s[Len(s)].n, t[1].n))>> \o Tail(t)
         ELSE s \o t

RECURSIVE FromSeq(_)
FromSeq(q) ==
    IF Len(q) = 0 THEN <<>>
    ELSE IF Len(q) = 1 THEN <<Run(q[1], W1)>>
    ELSE LET h == Len(q) \div 2 IN
         BCat(FromSeq(SubSeq(q, 1, h)), FromSeq(SubSeq(q, h + 1, Len(q))))

\* the bytes of a short string, one element each
RECURSIVE ToSeq(_)
ToSeq(s) ==
    IF Len(s) = 0 THEN <<>>
    ELSE IF Len(s) = 1 THEN [i \in 1..s[1].n.lo |-> s[1].b]
    ELSE LET h == Len(s) \div 2 IN
         ToSeq(SubSeq(s, 1, h)) \o ToSeq(SubSeq(s, h + 1, Len(s)))

\* the first w bytes of s, and s without them (w <= BLen(s))
RECURSIVE BTake(_, _)
BTake(s, w) ==
    IF Len(s) = 0 \/ w = W0 THEN <<>>
    ELSE IF Len(s) = 1 THEN (IF WLeq(s[1].n, w) THEN s ELSE <<Run(s[1].b, w)>>)
    ELSE LET h == Len(s) \div 2
             left == SubSeq(s, 1, h)
             n == BLen(left)
         IN IF WLeq(w, n) THEN BTake(left, w)
            ELSE left \o BTake(SubSeq(s, h + 1, Len(s)), WSub(w, n))

RECURSIVE BDrop(_, _)
BDrop(s, w) ==
    IF Len(s) = 0 \/ w = W0 THEN s
    ELSE IF Len(s) = 1
         THEN (IF WLeq(s[1].n, w) THEN <<>> ELSE <<Run(s[1].b, WSub(s[1].n, w))>>)
    ELSE LET h == Len(s) \div 2
             left == SubSeq(s, 1, h)
             right == SubSeq(s, h + 1, Len(s))
             n == BLen(left)
         IN IF WLt(w, n) THEN BDrop(left, w) \o right
            ELSE BDrop(right, WSub(w, n))

(***************************************************************************)
(* The streams: std::io::Read on a byte source, std::io::Write on a Vec    *)
(* (limit < 0) or on a fixed buffer of `limit` bytes.                      *)
(***************************************************************************)
\* read_exact: the next w bytes, or UnexpectedEof
ReadExact(src, w) ==
    IF WLt(BLen(src), w)
    THEN [ok |-> FALSE, bytes |-> <<>>, rest |-> <<>>]
    ELSE [ok |-> TRUE, bytes |-> BTake(src, w), rest |-> BDrop(src, w)]

\* write_all: every byte, or as many as fit and then WriteZero
WriteAll(wr, limit, data) ==
    IF limit < 0 \/ WLeq(WAdd(BLen(wr), BLen(data)), FromInt(limit))
    THEN [ok |-> TRUE, writer |-> BCat(wr, data)]
    ELSE [ok |-> FALSE,
          writer |-> BCat(wr, BTake(data, WSub(FromInt(limit), BLen(wr))))]

(***************************************************************************)
(* Constants and types of the codec                                        *)
(***************************************************************************)
\* b"xgcode 1.0\n\0\0\0\0\0"
XGCODE_MAGIC == <<120, 103, 99, 111, 100, 101, 32, 49, 46, 48, 10, 0, 0, 0, 0, 0>>
THUMB_OFFSET == 58

\* the header fields in the order read, with the width in bytes of each read
ReadOrder ==
    << [name |-> "print_time", width |-> 4],
       [name |-> "filament_0_usage", width |-> 4],
       [name |-> "filament_1_usage", width |-> 4],
       [name |-> "multi_extruder_type", width |-> 2],
       [name |-> "layer_height", width |-> 2],
       [name |-> "reserved0", width |-> 2],
       [name |-> "perimeter_shells", width |-> 2],
       [name |-> "print_speed", width |-> 2],
       [name |-> "hotbed_temp", width |-> 2],
       [name |-> "extruder_0_temp", width |-> 2],
       [name |-> "extruder_1_temp", width |-> 2],
       [name |-> "reserved1", width |-> 2] >>

\* the header fields in the order written, with the width of each write
WriteOrderSwapped ==
    << [name |-> "print_time", width |-> 4],
       [name |-> "filament_0_usage", width |-> 4],
       [name |-> "filament_1_usage", width |-> 4],
       [name |-> "multi_extruder_type", width |-> 2],
       [name |-> "layer_height", width |-> 2],
       [name |-> "perimeter_shells", width |-> 2],
       [name |-> "print_speed", width |-> 2],
       [name |-> "hotbed_temp", width |-> 2],
       [name |-> "extruder_0_temp", width |-> 2],
       [name |-> "extruder_1_temp", width |-> 2],
       [name |-> "reserved0", width |-> 2],
       [name |-> "reserved1", width |-> 2] >>
WriteOrder ==
    << [name |-> "print_time", width |-> 4],
       [name |-> "filament_0_usage", width |-> 4],
       [name |-> "filament_1_usage", width |-> 4],
       [name |-> "multi_extruder_type", width |-> 2],
       [name |-> "layer_height", width |-> 2],
       [name |-> "reserved0", width |-> 2],
       [name |-> "perimeter_shells", width |-> 2],
       [name |-> "print_speed", width |-> 2],
       [name |-> "hotbed_temp", width |-> 2],
       [name |-> "extruder_0_temp", width |-> 2],
       [name |-> "extruder_1_temp", width |-> 2],
       [name |-> "reserved1", width |-> 2] >>

\* Header { print_time, filament_0_usage, ... } built from the locals read
HeaderReservedSwapped(l) ==
    [ print_time |-> l["print_time"],
      filament_0_usage |-> l["filament_0_usage"],
      filament_1_usage |-> l["filament_1_usage"],
      multi_extruder_type |-> l["multi_extruder_type"],
      layer_height |-> l["layer_height"],
      perimeter_shells |-> l["perimeter_shells"],
      print_speed |-> l["print_speed"],
      hotbed_temp |-> l["hotbed_temp"],
      extruder_0_temp |-> l["extruder_0_temp"],
      extruder_1_temp |-> l["extruder_1_temp"],
      reserved0 |-> l["reserved1"],
      reserved1 |-> l["reserved0"] ]
Header(l) ==
    [ print_time |-> l["print_time"],
      filament_0_usage |-> l["filament_0_usage"],
      filament_1_usage |-> l["filament_1_usage"],
      multi_extruder_type |-> l["multi_extruder_type"],
      layer_height |-> l["layer_height"],
      perimeter_shells |-> l["perimeter_shells"],
      print_speed |-> l["print_speed"],
      hotbed_temp |-> l["hotbed_temp"],
      extruder_0_temp |-> l["extruder_0_temp"],
      extruder_1_temp |-> l["extruder_1_temp"],
      reserved0 |-> l["reserved0"],
      reserved1 |-> l["reserved1"] ]

XGCode(h, t, g) == [header |-> h, thumbnail |-> t, gcode |-> g]
\* XGCode::as_ref: the same header, the two vectors borrowed whole
AsRef(x) == [header |-> x.header, thumbnail |-> x.thumbnail, gcode |-> x.gcode]

\* Result<_, Error>, and a panic of the thread
Res(tag, err, val) == [tag |-> tag, err |-> err, val |-> val]
None == Res("None", "", <<>>)
Ok(v) == Res("Ok", "", v)
Err(kind, v) == Res("Err", kind, v)
Panic == Res("Panic", "attempt to subtract with overflow", <<>>)

(***************************************************************************)
(* State.  A run is one use of the library: "decode" reads a stream and    *)
(* writes the Document back (as tests::test_sample_file does), "encode"    *)
(* writes a Document and reads the bytes written.                          *)
(***************************************************************************)
VARIABLES
    mode,            \* "decode" | "encode"
    input,           \* the whole byte stream handed to read
    source,          \* what read has not consumed yet
    consumed,        \* how many bytes read has taken from the stream
    pc,              \* where read stands
    magic, thumb_offset, gcode_offset, thumb_size, gcode_offset2,
    hidx, fields,    \* header fields read so far: next index, name -> value
    thumbnail,
    result,          \* what read returned
    self,            \* the XGCodeRef handed to write
    wlimit,          \* the writer: a Vec (-1) or a buffer of that many bytes
    writer,          \* the bytes the writer has received
    wpc,             \* where write stands
    w_gcode_offset,  \* write's local gcode_offset
    widx,            \* next header field to write
    wresult          \* what write returned

rvars == <<input, source, consumed, pc, magic, thumb_offset, gcode_offset,
           thumb_size, gcode_offset2, hidx, fields, thumbnail, result>>
wvars == <<self, wlimit, writer, wpc, w_gcode_offset, widx, wresult>>
vars == <<mode, rvars, wvars>>

(***************************************************************************)
(* XGCode::read, one action per read of the stream                         *)
(***************************************************************************)
\* `?` on a failed read: the IO error is returned.  How much of the stream
\* a failed read_exact has taken is left open by std: all of it or none.
ReadFails ==
    /\ \E drained \in BOOLEAN :
         /\ source' = IF drained THEN <<>> ELSE source
         /\ consumed' = IF drained THEN BLen(input) ELSE consumed
    /\ result' = Err("IO", "UnexpectedEof")
    /\ pc' = "done"

Returns(r) == result' = r /\ pc' = "done"

\* read_u32 / read_u16 ::<LittleEndian>
ReadInt(src, width) ==
    LET r == ReadExact(src, FromInt(width)) IN
    [ok |-> r.ok, rest |-> r.rest,
     val |-> IF ~r.ok THEN 0
             ELSE IF width = 4 THEN U32FromLE(ToSeq(r.bytes))
             ELSE U16FromLE(ToSeq(r.bytes))]

\* Error::BadMagic(Box::new(magic))
BadMagicExpected(m) == Err("BadMagic", XGCODE_MAGIC)
BadMagic(m) == Err("BadMagic", m)

ReadMagic ==
    /\ pc = "magic"
    /\ LET r == ReadExact(source, FromInt(16)) IN
       IF ~r.ok
       THEN ReadFails /\ UNCHANGED magic
       ELSE /\ source' = r.rest
            /\ consumed' = WAdd(consumed, FromInt(16))
            /\ magic' = ToSeq(r.bytes)
            /\ IF magic' # XGCODE_MAGIC
               THEN Returns(BadMagic(magic'))
               ELSE pc' = "thumb_offset" /\ UNCHANGED result
    /\ UNCHANGED <<mode, input, thumb_offset, gcode_offset, thumb_size,
                   gcode_offset2, hidx, fields, thumbnail, wvars>>

ReadThumbOffset ==
    /\ pc = "thumb_offset"
    /\ LET r == ReadInt(source, 4) IN
       IF ~r.ok
       THEN ReadFails /\ UNCHANGED thumb_offset
       ELSE /\ source' = r.rest
            /\ consumed' = WAdd(consumed, FromInt(4))
            /\ thumb_offset' = r.val
            /\ IF thumb_offset' # FromInt(THUMB_OFFSET)
               THEN Returns(Err("BadHeaderSize", thumb_offset'))
               ELSE pc' = "gcode_offset" /\ UNCHANGED result
    /\ UNCHANGED <<mode, input, magic, gcode_offset, thumb_size,
                   gcode_offset2, hidx, fields, thumbnail, wvars>>

\* The argument of ok_or is evaluated whether or not checked_sub succeeded:
\* `gcode_offset as i32 - THUMB_OFFSET as i32` overflows i32 for
\* gcode_offset in 0x80000000..0x80000039, which panics in a build with
\* overflow checks (debug) and wraps, unused, in one without (release).
ReadGcodeOffset ==
    /\ pc = "gcode_offset"
    /\ LET r == ReadInt(source, 4) IN
       IF ~r.ok
       THEN ReadFails /\ UNCHANGED <<gcode_offset, thumb_size>>
       ELSE /\ source' = r.rest
            /\ consumed' = WAdd(consumed, FromInt(4))
            /\ gcode_offset' = r.val
            /\ LET sub == CheckedSub(gcode_offset', FromInt(THUMB_OFFSET))
                   a == AsI32(gcode_offset')
                   b == AsI32(FromInt(THUMB_OFFSET))
               IN \E overflow_checks \in BOOLEAN :
                  IF I32SubOverflows(a, b) /\ overflow_checks
                  THEN Returns(Panic) /\ UNCHANGED thumb_size
                  ELSE IF ~sub.some
                  THEN Returns(Err("ThumbSizeNegative", I32Sub(a, b)))
                       /\ UNCHANGED thumb_size
                  ELSE /\ thumb_size' = sub.val
                       /\ pc' = "gcode_offset2"
                       /\ UNCHANGED result
    /\ UNCHANGED <<mode, input, magic, thumb_offset, gcode_offset2, hidx,
                   fields, thumbnail, wvars>>

\* gcode_offset != gcode_offset2
OffsetsDifferLow(a, b) == a.lo # b.lo
OffsetsDiffer(a, b) == a # b

ReadGcodeOffset2 ==
    /\ pc = "gcode_offset2"
    /\ LET r == ReadInt(source, 4) IN
       IF ~r.ok
       THEN ReadFails /\ UNCHANGED gcode_offset2
       ELSE /\ source' = r.rest
            /\ consumed' = WAdd(consumed, FromInt(4))
            /\ gcode_offset2' = r.val
            /\ IF OffsetsDiffer(gcode_offset, gcode_offset2')
               THEN Returns(Err("SecondGOffsetNotFound", <<>>))
               ELSE pc' = "header" /\ UNCHANGED result
    /\ UNCHANGED <<mode, input, magic, thumb_offset, gcode_offset, thumb_size,
                   hidx, fields, thumbnail, wvars>>

ReadHeaderField ==
    /\ pc = "header"
    /\ LET f == ReadOrder[hidx]
           r == ReadInt(source, f.width)
       IN IF ~r.ok
          THEN ReadFails /\ UNCHANGED <<hidx, fields>>
          ELSE /\ source' = r.rest
               /\ consumed' = WAdd(consumed, FromInt(f.width))
               /\ fields' = (f.name :> r.val) @@ fields
               /\ hidx' = hidx + 1
               /\ pc' = IF hidx = Len(ReadOrder) THEN "thumbnail" ELSE "header"
               /\ UNCHANGED result
    /\ UNCHANGED <<mode, input, magic, thumb_offset, gcode_offset, thumb_size,
                   gcode_offset2, thumbnail, wvars>>

\* vec![0; thumb_size] and read_exact into it
ReadThumbnail ==
    /\ pc = "thumbnail"
    /\ LET r == ReadExact(source, thumb_size) IN
       IF ~r.ok
       THEN ReadFails /\ UNCHANGED thumbnail
       ELSE /\ source' = r.rest
            /\ consumed' = WAdd(consumed, thumb_size)
            /\ thumbnail' = r.bytes
            /\ pc' = "gcode"
            /\ UNCHANGED result
    /\ UNCHANGED <<mode, input, magic, thumb_offset, gcode_offset, thumb_size,
                   gcode_offset2, hidx, fields, wvars>>

\* read_to_end, then Ok(XGCode { header, thumbnail, gcode })
ReadGcode ==
    /\ pc = "gcode"
    /\ source' = <<>>
    /\ consumed' = WAdd(consumed, BLen(source))
    /\ Returns(Ok(XGCode(Header(fields), thumbnail, source)))
    /\ UNCHANGED <<mode, input, magic, thumb_offset, gcode_offset, thumb_size,
                   gcode_offset2, hidx, fields, thumbnail, wvars>>

(***************************************************************************)
(* XGCodeRef::write, one action per write to the writer                    *)
(***************************************************************************)
WReturns(r) == wresult' = r /\ wpc' = "done"

\* `?` on a failed write: what fitted was written, the IO error is returned
Emit(data, next) ==
    LET r == WriteAll(writer, wlimit, data) IN
    /\ writer' = r.writer
    /\ IF r.ok THEN wpc' = next /\ UNCHANGED wresult
       ELSE WReturns(Err("IO", "WriteZero"))

WriteCheck ==
    /\ wpc = "check"
    /\ w_gcode_offset' = WAdd(FromInt(THUMB_OFFSET), BLen(self.thumbnail))
    /\ IF ExceedsU32(w_gcode_offset')
       THEN WReturns(Err("ThumbnailTooLarge", BLen(self.thumbnail)))
       ELSE wpc' = "magic" /\ UNCHANGED wresult
    /\ UNCHANGED <<mode, rvars, self, wlimit, writer, widx>>

WriteMagic ==
    /\ wpc = "magic"
    /\ Emit(FromSeq(XGCODE_MAGIC), "thumb_offset")
    /\ UNCHANGED <<mode, rvars, self, wlimit, w_gcode_offset, widx>>

WriteThumbOffset ==
    /\ wpc = "thumb_offset"
    /\ Emit(FromSeq(U32ToLE(FromInt(THUMB_OFFSET))), "gcode_offset")
    /\ UNCHANGED <<mode, rvars, self, wlimit, w_gcode_offset, widx>>

WriteGcodeOffset ==
    /\ wpc = "gcode_offset"
    /\ Emit(FromSeq(U32ToLE(AsU32(w_gcode_offset))), "gcode_offset2")
    /\ UNCHANGED <<mode, rvars, self, wlimit, w_gcode_offset, widx>>

\* "Yes, there is a second field"
WriteGcodeOffset2 ==
    /\ wpc = "gcode_offset2"
    /\ Emit(FromSeq(U32ToLE(AsU32(w_gcode_offset))), "header")
    /\ UNCHANGED <<mode, rvars, self, wlimit, w_gcode_offset, widx>>

WriteHeaderField ==
    /\ wpc = "header"
    /\ LET f == WriteOrder[widx]
           v == self.header[f.name]
       IN Emit(FromSeq(IF f.width = 4 THEN U32ToLE(v) ELSE U16ToLE(v)),
               IF widx = Len(WriteOrder) THEN "thumbnail" ELSE "header")
    /\ widx' = widx + 1
    /\ UNCHANGED <<mode, rvars, self, wlimit, w_gcode_offset>>

WriteThumbnail ==
    /\ wpc = "thumbnail"
    /\ Emit(self.thumbnail, "gcode")
    /\ UNCHANGED <<mode, rvars, self, wlimit, w_gcode_offset, widx>>

\* the last write, then Ok(())
WriteGcode ==
    /\ wpc = "gcode"
    /\ LET r == WriteAll(writer, wlimit, self.gcode) IN
       /\ writer' = r.writer
       /\ WReturns(IF r.ok THEN Ok(<<>>) ELSE Err("IO", "WriteZero"))
    /\ UNCHANGED <<mode, rvars, self, wlimit, w_gcode_offset, widx>>

(***************************************************************************)
(* The callers: parsed.write(&mut file2) after a successful read, and a    *)
(* read of the bytes a successful write produced.                          *)
(***************************************************************************)
\* the writers tried: a Vec, and fixed buffers of these sizes
WriterLimits == {-1, 0, 17, 59}

StartWrite ==
    /\ mode = "decode"
    /\ pc = "done" /\ result.tag = "Ok"
    /\ wpc = "idle"
    /\ self' = AsRef(result.val)
    /\ wlimit' \in WriterLimits
    /\ wpc' = "check"
    /\ UNCHANGED <<mode, rvars, writer, w_gcode_offset, widx, wresult>>

StartRead ==
    /\ mode = "encode"
    /\ wpc = "done" /\ wresult.tag = "Ok"
    /\ pc = "idle"
    /\ input' = writer
    /\ source' = writer
    /\ pc' = "magic"
    /\ UNCHANGED <<mode, consumed, magic, thumb_offset, gcode_offset,
                   thumb_size, gcode_offset2, hidx, fields, thumbnail, result,
                   wvars>>

(***************************************************************************)
(* Inputs                                                                  *)
(***************************************************************************)
MaxTail == 3
MaxThumb == 2
MaxGcode == 2

SeqsUpTo(S, n) == UNION {[1..k -> S] : k \in 0..n}
TailBytes == {0, 66}

\* streams: raw bytes, region by region
BadMagics ==
    {[XGCODE_MAGIC EXCEPT ![p] = (@ + 1) % Base8] : p \in 1..16}
        \cup {[i \in 1..16 |-> 0], [i \in 1..16 |-> XGCODE_MAGIC[17 - i]]}
GoodThumbOffset == <<58, 0, 0, 0>>
BadThumbOffsets ==
    {<<0, 0, 0, 0>>, <<59, 0, 0, 0>>, <<58, 1, 0, 0>>, <<0, 0, 0, 58>>, <<58, 0, 0, 128>>}
Off1Bytes ==
    {<<0, 0, 0, 0>>, <<57, 0, 0, 0>>, <<58, 0, 0, 0>>, <<59, 0, 0, 0>>,
     <<60, 0, 0, 0>>, <<62, 0, 0, 0>>, <<58, 0, 1, 0>>, <<0, 0, 0, 58>>,
     <<0, 0, 0, 128>>, <<57, 0, 0, 128>>, <<58, 0, 0, 128>>,
     <<255, 255, 255, 255>>}
Off2Bytes == {<<58, 0, 0, 0>>, <<60, 0, 0, 0>>, <<0, 0, 0, 128>>}
HeaderRegionScenario ==
    <<16, 14, 0, 0, 232, 3, 0, 0>> \o [i \in 1..22 |-> 0]
HeaderRegionDistinct == [i \in 1..30 |-> 128 + i]
HeaderRegions ==
    {[i \in 1..30 |-> 0], HeaderRegionScenario, HeaderRegionDistinct}
Rests ==
    {<<>>, <<255>>,
     GoodThumbOffset \o <<60, 0, 0, 0, 60, 0, 0, 0>> \o HeaderRegionScenario \o <<66, 77, 0>>}

StreamsWithOffset(o1) ==
    {XGCODE_MAGIC \o GoodThumbOffset \o o1 \o o2 \o h \o t :
        o2 \in Off2Bytes \cup {o1}, h \in HeaderRegions,
        t \in SeqsUpTo(TailBytes, MaxTail)}
Prefixes(full) == {SubSeq(full, 1, n) : n \in 0..Len(full)}
TruncatedWithOffset(o1) ==
    UNION {Prefixes(XGCODE_MAGIC \o GoodThumbOffset \o o1 \o o2
                        \o HeaderRegionDistinct \o <<66, 0, 66>>) :
           o2 \in Off2Bytes \cup {o1}}

DecodeInputs ==
    {m \o r : m \in BadMagics, r \in Rests}
    \cup {XGCODE_MAGIC \o t \o r : t \in BadThumbOffsets, r \in Rests}
    \cup UNION {StreamsWithOffset(o1) : o1 \in Off1Bytes}
    \cup UNION {TruncatedWithOffset(o1) : o1 \in Off1Bytes}

\* Documents
HeaderZero ==
    [ print_time |-> W0, filament_0_usage |-> W0, filament_1_usage |-> W0,
      multi_extruder_type |-> 0, layer_height |-> 0, reserved0 |-> 0,
      perimeter_shells |-> 0, print_speed |-> 0, hotbed_temp |-> 0,
      extruder_0_temp |-> 0, extruder_1_temp |-> 0, reserved1 |-> 0 ]
HeaderMixed ==
    [ print_time |-> W(35339, 3085), filament_0_usage |-> W(258, 772),
      filament_1_usage |-> W(65535, 65535),
      multi_extruder_type |-> 258, layer_height |-> 772, reserved0 |-> 48879,
      perimeter_shells |-> 1286, print_speed |-> 1800, hotbed_temp |-> 2314,
      extruder_0_temp |-> 2828, extruder_1_temp |-> 3342, reserved1 |-> 51966 ]
Headers ==
    {HeaderZero, HeaderMixed,
     [HeaderZero EXCEPT !.print_time = W(0, 3600), !.filament_0_usage = W(0, 1000)],
     [HeaderZero EXCEPT !.reserved0 = 1, !.reserved1 = 65535]}

\* thumbnails around the largest the offset fields can describe
HugeLens ==
    {WSub(U32_MAX, FromInt(THUMB_OFFSET + 1)), WSub(U32_MAX, FromInt(THUMB_OFFSET)),
     WSub(U32_MAX, FromInt(THUMB_OFFSET - 1)), W(Base16, 0), W(Base16, THUMB_OFFSET),
     WSub(W(Base16 \div 2, 0), FromInt(THUMB_OFFSET + 1)),
     WSub(W(Base16 \div 2, 0), FromInt(THUMB_OFFSET)), W(Base16 \div 2, 0)}

Documents ==
    {XGCode(h, FromSeq(t), FromSeq(g)) :
        h \in Headers, t \in SeqsUpTo(TailBytes, MaxThumb),
        g \in SeqsUpTo(TailBytes, MaxGcode)}
    \cup {XGCode(HeaderMixed, <<Run(b, n)>>, FromSeq(g)) :
            b \in TailBytes, n \in HugeLens, g \in {<<>>, <<66>>}}

Init ==
    /\ magic = <<>> /\ thumb_offset = W0 /\ gcode_offset = W0
    /\ thumb_size = W0 /\ gcode_offset2 = W0
    /\ hidx = 1 /\ fields = <<>> /\ thumbnail = <<>>
    /\ consumed = W0 /\ result = None
    /\ writer = <<>> /\ w_gcode_offset = W0 /\ widx = 1 /\ wresult = None
    /\ \/ /\ mode = "decode"
          /\ \E b \in DecodeInputs : input = FromSeq(b) /\ source = FromSeq(b)
          /\ pc = "magic"
          /\ self = XGCode(HeaderZero, <<>>, <<>>)
          /\ wlimit = -1
          /\ wpc = "idle"
       \/ /\ mode = "encode"
          /\ \E d \in Documents : self = AsRef(d)
          /\ wlimit \in WriterLimits
          /\ wpc = "check"
          /\ input = <<>> /\ source = <<>>
          /\ pc = "idle"

Next ==
    \/ ReadMagic \/ ReadThumbOffset \/ ReadGcodeOffset \/ ReadGcodeOffset2
    \/ ReadHeaderField \/ ReadThumbnail \/ ReadGcode
    \/ StartWrite
    \/ WriteCheck \/ WriteMagic \/ WriteThumbOffset \/ WriteGcodeOffset
    \/ WriteGcodeOffset2 \/ WriteHeaderField \/ WriteThumbnail \/ WriteGcode
    \/ StartRead

Spec == Init /\ [][Next]_vars

(***************************************************************************)
(* The properties.  They speak of the stream by its bytes: the file layout *)
(* of the format is restated here, independently of the operators above.   *)
(***************************************************************************)
FormatMagic == <<120, 103, 99, 111, 100, 101, 32, 49, 46, 48, 10, 0, 0, 0, 0, 0>>
FormatHeaderEnd == 58

InLen == BLen(input)
AtLeast(n) == WLeq(FromInt(n), InLen)
\* the first 58 bytes of the stream, or all of it when it is shorter
HeadBytes == ToSeq(BTake(input, IF AtLeast(FormatHeaderEnd) THEN FromInt(FormatHeaderEnd) ELSE InLen))
\* the little-endian values at a (0-based) offset of the stream's head
U32At(hb, o) == W(hb[o + 3] + 256 * hb[o + 4], hb[o + 1] + 256 * hb[o + 2])
U16At(hb, o) == hb[o + 1] + 256 * hb[o + 2]
LE32(v) == <<v.lo % 256, v.lo \div 256, v.hi % 256, v.hi \div 256>>
LE16(n) == <<n % 256, n \div 256>>
ToInt(v) == v.hi * 65536 + v.lo

MagicOk(hb) == Len(hb) >= 16 /\ SubSeq(hb, 1, 16) = FormatMagic
ThumbOffsetOk(hb) == Len(hb) >= 20 /\ U32At(hb, 16) = W(0, 58)
Off1(hb) == U32At(hb, 20)
Off2(hb) == U32At(hb, 24)
IsErr(r, kind) == r.tag = "Err" /\ r.err = kind
IsOk(r) == r.tag = "Ok"
IsPanic(r) == r.tag = "Panic"
ReadDone == pc = "done"
WriteDone == wpc = "done"
VecWriter == wlimit = -1
ThumbLen == BLen(self.thumbnail)
\* 0x3A + thumbnail.len() against the largest 32-bit unsigned value
OffsetFits == WLeq(WAdd(W(0, 58), ThumbLen), W(65535, 65535))
\* off1 - 0x3A as i32 is computed before the result of checked_sub is used
\* and overflows for these off1
Off1Overflows(hb) == Off1(hb).hi = 32768 /\ Off1(hb).lo < 58

\* C1: byte round trip. Whenever read succeeds on a stream b and the
\* Document is written to a Vec, write succeeds and the Vec holds exactly b.
C1_ByteRoundTrip ==
    (mode = "decode" /\ WriteDone /\ VecWriter)
        => (IsOk(wresult) /\ writer = input)
C1_Witness ==
    /\ mode = "decode" /\ WriteDone /\ VecWriter /\ IsOk(wresult)
    /\ self.thumbnail # <<>> /\ self.gcode # <<>>
    /\ self.header.reserved0 # 0 /\ self.header.reserved1 # 0

\* C2: value round trip. For every Document whose offset fits 32 bits,
\* write to a Vec succeeds, and read of the bytes written succeeds and
\* returns a Document equal to it.
C2_ValueRoundTrip ==
    (mode = "encode" /\ VecWriter /\ OffsetFits)
        => /\ WriteDone => IsOk(wresult)
           /\ ReadDone => (IsOk(result) /\ result.val = self)
\* C2 without the overflow of line 93: read of the bytes written returns the
\* Document, or panics for a thumbnail of 0x80000000 - 0x3A .. 0x7FFFFFFF bytes
C2_UpToPanic ==
    LET hb == HeadBytes IN
    (mode = "encode" /\ VecWriter /\ OffsetFits)
        => /\ WriteDone => IsOk(wresult)
           /\ ReadDone =>
                \/ IsOk(result) /\ result.val = self
                \/ IsPanic(result) /\ Off1Overflows(hb)

\* C3: what read returns on success: the thumbnail is b[0x3A .. off1), the
\* payload is b[off1 .. end), each header field is the little-endian value
\* at its offset of the table.
C3_DecodeResult ==
    LET hb == HeadBytes IN
    (ReadDone /\ IsOk(result))
        => LET d == result.val IN
           /\ d.thumbnail = BDrop(BTake(input, Off1(hb)), W(0, 58))
           /\ BLen(d.thumbnail) = WSub(Off1(hb), W(0, 58))
           /\ d.gcode = BDrop(input, Off1(hb))
           /\ BCat(d.thumbnail, d.gcode) = BDrop(input, W(0, 58))
           /\ d.header.print_time = U32At(hb, 28)
           /\ d.header.filament_0_usage = U32At(hb, 32)
           /\ d.header.filament_1_usage = U32At(hb, 36)
           /\ d.header.multi_extruder_type = U16At(hb, 40)
           /\ d.header.layer_height = U16At(hb, 42)
           /\ d.header.reserved0 = U16At(hb, 44)
           /\ d.header.perimeter_shells = U16At(hb, 46)
           /\ d.header.print_speed = U16At(hb, 48)
           /\ d.header.hotbed_temp = U16At(hb, 50)
           /\ d.header.extruder_0_temp = U16At(hb, 52)
           /\ d.header.extruder_1_temp = U16At(hb, 54)
           /\ d.header.reserved1 = U16At(hb, 56)
C3_Witness ==
    LET hb == HeadBytes IN
    /\ mode = "decode" /\ ReadDone /\ IsOk(result)
    /\ Off1(hb) = W(0, 60)
    /\ result.val.thumbnail = FromSeq(<<66, 0>>)
    /\ result.val.gcode = FromSeq(<<66>>)
    /\ result.val.header.print_time = W(0, 3600)
    /\ result.val.header.filament_0_usage = W(0, 1000)

\* C4: magic rejection. On a stream of at least 16 bytes whose first 16
\* differ from the magic, read fails with BadMagic carrying those 16 bytes,
\* having consumed exactly 16 bytes: it takes no step past the magic.
C4_MagicRejection ==
    LET hb == HeadBytes IN
    (pc # "idle" /\ AtLeast(16) /\ ~MagicOk(hb))
        => \/ pc = "magic" /\ consumed = W0 /\ result.tag = "None"
           \/ /\ ReadDone
              /\ IsErr(result, "BadMagic")
              /\ result.val = SubSeq(hb, 1, 16)
              /\ consumed = W(0, 16)
              /\ source = BDrop(input, W(0, 16))
C4_Witness ==
    LET hb == HeadBytes IN
    /\ ReadDone /\ IsErr(result, "BadMagic")
    /\ InLen = W(0, 16 + 12 + 30 + 3)
    /\ SubSeq(hb, 17, 28) = <<58, 0, 0, 0, 60, 0, 0, 0, 60, 0, 0, 0>>
    /\ \E p \in 1..16 :
         \A i \in 1..16 : (result.val[i] = FormatMagic[i]) <=> (i # p)

C6_NegativeThumbSize ==
    LET hb == HeadBytes IN
    (pc # "idle" /\ AtLeast(24) /\ MagicOk(hb) /\ ThumbOffsetOk(hb) /\ WLt(Off1(hb), W(0, 58)))
        => \/ pc \in {"magic", "thumb_offset", "gcode_offset"} /\ result.tag = "None"
           \/ /\ ReadDone
              /\ IsErr(result, "ThumbSizeNegative")
              /\ ToInt(result.val) = ToInt(Off1(hb)) - 58
              /\ ToInt(result.val) \in -58 .. -1
              /\ consumed = W(0, 24)
              /\ source = BDrop(input, W(0, 24))
C6_Witness ==
    /\ ReadDone /\ IsErr(result, "ThumbSizeNegative")
    /\ ToInt(result.val) = -1
    /\ WLt(W(0, 28), InLen)

\* C7: oversized thumbnail. When 0x3A + L exceeds the 32-bit maximum, write
\* fails with ThumbnailTooLarge carrying L and the writer receives nothing;
\* when 0x3A + L is the maximum exactly, write does not fail so and both
\* offset fields written hold 0xFFFFFFFF.
C7_OversizedThumbnail ==
    /\ (wpc # "idle" /\ ~OffsetFits)
         => /\ writer = <<>>
            /\ wpc \in {"check", "done"}
            /\ WriteDone => (IsErr(wresult, "ThumbnailTooLarge") /\ wresult.val = ThumbLen)
    /\ (wpc # "idle" /\ WAdd(W(0, 58), ThumbLen) = W(65535, 65535))
         => /\ ~IsErr(wresult, "ThumbnailTooLarge")
            /\ WLeq(W(0, 28), BLen(writer))
                 => ToSeq(BDrop(BTake(writer, W(0, 28)), W(0, 20)))
                      = <<255, 255, 255, 255, 255, 255, 255, 255>>
            /\ (WriteDone /\ VecWriter) => IsOk(wresult)
C7_Witness ==
    /\ WriteDone /\ IsErr(wresult, "ThumbnailTooLarge")
    /\ WAdd(W(0, 58), wresult.val) = W(65536, 0)
    /\ writer = <<>>

\* C8: read is all-or-nothing on short streams: a stream that ends inside
\* the magic, or inside the offsets and header after a prefix that passes
\* the checks, or before off1 bytes after passing them all, makes read fail
\* with the IO error; read returns a Document only for at least off1 bytes.
ChecksPassSoFar(hb) ==
    /\ MagicOk(hb)
    /\ AtLeast(20) => ThumbOffsetOk(hb)
    /\ AtLeast(24) => WLeq(W(0, 58), Off1(hb))
    /\ AtLeast(28) => Off1(hb) = Off2(hb)
C8_AllOrNothing ==
    LET hb == HeadBytes IN
    ReadDone =>
        /\ ~AtLeast(16) => IsErr(result, "IO")
        /\ (ChecksPassSoFar(hb) /\ ~AtLeast(58)) => IsErr(result, "IO")
        /\ (ChecksPassSoFar(hb) /\ AtLeast(58) /\ WLt(InLen, Off1(hb))) => IsErr(result, "IO")
        /\ IsOk(result)
             => /\ AtLeast(58) /\ WLeq(Off1(hb), InLen)
                /\ BLen(result.val.thumbnail) = WSub(Off1(hb), W(0, 58))
\* C8 up to the overflow of line 93: the same, with the panic allowed for
\* off1 in 0x80000000..0x80000039
C8_UpToPanic ==
    LET hb == HeadBytes IN
    ReadDone =>
        LET IOOrPanic == IsErr(result, "IO") \/ (IsPanic(result) /\ AtLeast(24) /\ Off1Overflows(hb))
        IN /\ ~AtLeast(16) => IsErr(result, "IO")
           /\ (ChecksPassSoFar(hb) /\ ~AtLeast(58)) => IOOrPanic
           /\ (ChecksPassSoFar(hb) /\ AtLeast(58) /\ WLt(InLen, Off1(hb))) => IOOrPanic
           /\ IsOk(result)
                => /\ AtLeast(58) /\ WLeq(Off1(hb), InLen)
                   /\ BLen(result.val.thumbnail) = WSub(Off1(hb), W(0, 58))

\* C9: encode layout. Into a writer that never fails, write emits the magic,
\* 0x3A, the offset 0x3A + L twice, the 12 header fields in the table order,
\* the thumbnail, the payload, in this order and nothing else.
Layout ==
    LET h == self.header IN
    BCat(FromSeq(FormatMagic \o LE32(W(0, 58))
                   \o LE32(WAdd(W(0, 58), ThumbLen)) \o LE32(WAdd(W(0, 58), ThumbLen))
                   \o LE32(h.print_time) \o LE32(h.filament_0_usage)
                   \o LE32(h.filament_1_usage) \o LE16(h.multi_extruder_type)
                   \o LE16(h.layer_height) \o LE16(h.reserved0)
                   \o LE16(h.perimeter_shells) \o LE16(h.print_speed)
                   \o LE16(h.hotbed_temp) \o LE16(h.extruder_0_temp)
                   \o LE16(h.extruder_1_temp) \o LE16(h.reserved1)),
         BCat(self.thumbnail, self.gcode))
C9_EncodeLayout ==
    (wpc # "idle" /\ VecWriter /\ OffsetFits)
        => /\ writer = BTake(Layout, BLen(writer))
           /\ WriteDone =>
                /\ IsOk(wresult)
                /\ writer = Layout
                /\ BLen(writer) = WAdd(W(0, 58), WAdd(ThumbLen, BLen(self.gcode)))
                /\ BDrop(BTake(writer, WAdd(W(0, 58), ThumbLen)), W(0, 58)) = self.thumbnail
C9_Witness ==
    /\ mode = "encode" /\ WriteDone /\ VecWriter /\ IsOk(wresult)
    /\ self.header.reserved0 = 48879 /\ self.header.perimeter_shells = 1286
    /\ self.thumbnail = FromSeq(<<66, 0>>) /\ self.gcode = FromSeq(<<0, 66>>)

\* C10: decode error precedence. On a stream of at least 28 bytes the
\* outcome is that of the first check that fails, in the order magic,
\* thumbnail offset, off1 >= 0x3A, off1 = off2; with none failing it is
\* success or IO; never DataInReservedField or ThumbnailTooLarge.
Precedence(hb, allowed) ==
    IF ~MagicOk(hb)
    THEN IsErr(result, "BadMagic") /\ result.val = SubSeq(hb, 1, 16)
    ELSE IF ~ThumbOffsetOk(hb)
    THEN IsErr(result, "BadHeaderSize") /\ result.val = U32At(hb, 16)
    ELSE IF WLt(Off1(hb), W(0, 58)) THEN IsErr(result, "ThumbSizeNegative")
    ELSE IF allowed THEN TRUE
    ELSE IF Off1(hb) # Off2(hb) THEN IsErr(result, "SecondGOffsetNotFound")
    ELSE IsOk(result) \/ IsErr(result, "IO")
C10_ErrorPrecedence ==
    LET hb == HeadBytes IN
    /\ (ReadDone /\ AtLeast(28)) => Precedence(hb, FALSE)
    /\ ~IsErr(result, "DataInReservedField")
    /\ ~IsErr(result, "ThumbnailTooLarge")
\* C10 up to the overflow of line 93
C10_UpToPanic ==
    LET hb == HeadBytes IN
    /\ (ReadDone /\ AtLeast(28)) => Precedence(hb, IsPanic(result) /\ Off1Overflows(hb))
    /\ ~IsErr(result, "DataInReservedField")
    /\ ~IsErr(result, "ThumbnailTooLarge")

=============================================================================
